---- MODULE Spec2Model ----
(***************************************************************************)
(* A model of the chess board representation: the coordinate system        *)
(* (Rank, File, Square and their conversions, src/repr/board/square.rs),   *)
(* the 64-bit BitBoard and its operators (src/repr/board/bitboard.rs) and  *)
(* the print_bitboard example driver (examples/print_bitboard.rs).         *)
(*                                                                         *)
(* Text is a sequence of Unicode code points.  A u64 is the set of the     *)
(* positions of its one bits (a subset of 0..63), so that every bit of     *)
(* the 64-bit width is kept.  A Result is a record [tag, val] whose tag is *)
(* "Ok" or "Err"; a panic (an unwinding abort) is the tag "Panic".         *)
(***************************************************************************)
EXTENDS Integers, Sequences, FiniteSets

VARIABLES
    overflow_checks, \* build profile: TRUE = arithmetic overflow panics (debug)
    text,            \* the &str handed to Square::from_str
    parsed,          \* what Square::from_str returned
    index,           \* what u8::from(Square) returned
    ch,              \* the char handed to File::try_from
    file_result,     \* what File::try_from(char) returned
    board,           \* the BitBoard operated on
    op,              \* the BitBoard operation applied last
    arg,             \* its integer argument
    rhs,             \* its BitBoard argument
    prev,            \* the BitBoard before the operation
    out,             \* the value the operation returned
    args,            \* the driver's argument tokens (program name skipped)
    argi,            \* the position of the driver's loop in args
    stdout,          \* what the driver has printed
    pc               \* the driver's position

vars == <<overflow_checks, text, parsed, index, ch, file_result,
          board, op, arg, rhs, prev, out, args, argi, stdout, pc>>

squareVars == <<text, parsed, index>>
fileVars == <<ch, file_result>>
boardVars == <<board, op, arg, rhs, prev, out>>
driverVars == <<args, argi, stdout, pc>>

(***************************************************************************)
(* Bounds of the model.                                                    *)
(***************************************************************************)
MaxLen == 3      \* longest text handed to Square::from_str
MaxShift == 130  \* shift counts range over -MaxShift..MaxShift
MaxArgs == 3     \* most tokens handed to the driver

(***************************************************************************)
(* Results.                                                                *)
(***************************************************************************)
Ok(v) == [tag |-> "Ok", val |-> v]
Err(e) == [tag |-> "Err", val |-> e]
Panic(m) == [tag |-> "Panic", val |-> m]
None == [tag |-> "None", val |-> ""]

(***************************************************************************)
(* Characters.                                                             *)
(***************************************************************************)
U8 == 256
AsU8(n) == n % U8

\* Non-ASCII characters of the model: e-acute, E-acute, y-diaeresis,
\* I-dot-above, S-caron, s-caron, T-cedilla, t-cedilla, U-tilde, u-tilde,
\* Y-diaeresis, script small g, Kelvin sign, grinning face.
NonAsciiChars == {233, 201, 255, 304, 352, 353, 354, 355, 360, 361, 376, 609,
                  8490, 128512}

\* The first char of char::to_lowercase.
to_lowercase_next(c) ==
    IF c >= 65 /\ c <= 90 THEN c + 32
    ELSE CASE c = 201 -> 233
           [] c = 304 -> 105
           [] c = 352 -> 353
           [] c = 354 -> 355
           [] c = 360 -> 361
           [] c = 376 -> 255
           [] c = 8490 -> 107
           [] OTHER -> c

\* The number of bytes of a char in UTF-8.
len_utf8(c) ==
    IF c < 128 THEN 1 ELSE IF c < 2048 THEN 2 ELSE IF c < 65536 THEN 3 ELSE 4

\* str::len: the length in bytes.
RECURSIVE str_len(_)
str_len(s) == IF s = <<>> THEN 0 ELSE len_utf8(Head(s)) + str_len(Tail(s))

is_ascii(s) == \A i \in 1..Len(s) : s[i] < 128

(***************************************************************************)
(* Rank.                                                                   *)
(***************************************************************************)
Rank == {"One", "Two", "Three", "Four", "Five", "Six", "Seven", "Eight"}

\* `rank as u8`: the discriminant of the enum.
Rank_as_u8(r) ==
    CASE r = "One" -> 1 [] r = "Two" -> 2 [] r = "Three" -> 3
      [] r = "Four" -> 4 [] r = "Five" -> 5 [] r = "Six" -> 6
      [] r = "Seven" -> 7 [] r = "Eight" -> 8

Rank_try_from_u8(value) ==
    CASE value = 1 -> Ok("One") [] value = 2 -> Ok("Two")
      [] value = 3 -> Ok("Three") [] value = 4 -> Ok("Four")
      [] value = 5 -> Ok("Five") [] value = 6 -> Ok("Six")
      [] value = 7 -> Ok("Seven") [] value = 8 -> Ok("Eight")
      [] OTHER -> Err("()")

\* char::to_digit(10) of a decimal digit.
to_digit(c) == c - 48

Rank_try_from_char(value) ==
    IF value >= 49 /\ value <= 56
    THEN LET r == Rank_try_from_u8(AsU8(to_digit(value)))
         IN  IF r.tag = "Ok" THEN Ok(r.val) ELSE Panic("unwrap on Err")
    ELSE Err("")

(***************************************************************************)
(* File.                                                                   *)
(***************************************************************************)
File == {"A", "B", "C", "D", "E", "F", "G", "H"}

File_try_from_u8(value) ==
    CASE value = 1 -> Ok("A") [] value = 2 -> Ok("B")
      [] value = 3 -> Ok("C") [] value = 4 -> Ok("D")
      [] value = 5 -> Ok("E") [] value = 6 -> Ok("F")
      [] value = 7 -> Ok("G") [] value = 8 -> Ok("H")
      [] OTHER -> Err("()")

\* lowercase as u8 - b'a' + 1 in u8 arithmetic: an overflow panics when the
\* build checks overflow and wraps when it does not.
File_try_from_char(value, checks) ==
    LET lowercase == to_lowercase_next(value)
        byte == AsU8(lowercase)
        diff == byte - 97
        sum == AsU8(diff) + 1
    IN  IF diff < 0 /\ checks THEN Panic("attempt to subtract with overflow")
        ELSE IF sum >= U8 /\ checks THEN Panic("attempt to add with overflow")
        ELSE File_try_from_u8(AsU8(sum))

u8_from_File(value) ==
    CASE value = "A" -> 1 [] value = "B" -> 2 [] value = "C" -> 3
      [] value = "D" -> 4 [] value = "E" -> 5 [] value = "F" -> 6
      [] value = "G" -> 7 [] value = "H" -> 8

(***************************************************************************)
(* Square.                                                                 *)
(***************************************************************************)
WIDTH == 8

Square == [file : File, rank : Rank]

\* Fault variant: the final - 1 is left out.
u8_from_Square_mut(value) ==
    LET rank == Rank_as_u8(value.rank)
        file == u8_from_File(value.file)
    IN  AsU8(AsU8((rank - 1) * WIDTH) + file)

u8_from_Square(value) ==
    LET rank == Rank_as_u8(value.rank)
        file == u8_from_File(value.file)
    IN  AsU8(AsU8(AsU8((rank - 1) * WIDTH) + file) - 1)

Square_from_str(s, checks) ==
    IF str_len(s) # 2 THEN Err("Length is not 2")
    ELSE IF ~is_ascii(s) THEN Err("Non-ASCII input")
    ELSE IF Len(s) < 1 THEN Err("Empty first character.")
    ELSE IF Len(s) < 2 THEN Err("Empty second character.")
    ELSE LET file == s[1]
             rank == s[2]
             r == Rank_try_from_char(rank)
             f == File_try_from_char(file, checks)
         IN  IF r.tag = "Panic" THEN r
             ELSE IF r.tag = "Err" THEN Panic("unable to parse rank")
             ELSE IF f.tag = "Panic" THEN f
             ELSE IF f.tag = "Err" THEN Panic("unable to parse file")
             ELSE Ok([rank |-> r.val, file |-> f.val])

(***************************************************************************)
(* BitBoard: a u64, held as the set of the positions of its one bits.      *)
(***************************************************************************)
BITS == 64

AllBits == 0..(BITS - 1)

BitBoard_default == {}

\* The bits of an i64 in two's complement, for a count within 32 bits.
i64_bits(n) ==
    {i \in AllBits : IF i < 31 THEN (n \div (2 ^ i)) % 2 = 1 ELSE n < 0}

\* `as u32` of a 64-bit value: the low 32 bits.
as_u32(bits) == bits \cap (0..31)

\* The number a set of bits below bit 31 stands for.
RECURSIVE bits_value(_)
bits_value(bits) ==
    IF bits = {} THEN 0
    ELSE LET i == CHOOSE j \in bits : TRUE
         IN  (2 ^ i) + bits_value(bits \ {i})

\* a << k on u64 for k < BITS: the bits moved past the top bit are lost.
u64_shl(a, k) == {i + k : i \in a} \cap AllBits

\* u64::wrapping_shl: the count is masked to the width, rhs & (BITS - 1).
\* Fault variant: rotate_left in place of wrapping_shl.
wrapping_shl_mut(a, rhs_u32) ==
    {(i + bits_value(rhs_u32 \cap (0..5))) % BITS : i \in a}
wrapping_shl(a, rhs_u32) == u64_shl(a, bits_value(rhs_u32 \cap (0..5)))

BitAnd(a, b) == a \cap b
BitOr(a, b) == a \cup b
u64_not(a) == AllBits \ a

\* Fault variant: count_zeros in place of count_ones.
population_count_mut(b) == AsU8(Cardinality(u64_not(b)))
population_count(b) == AsU8(Cardinality(b))

\* Fault variant: = in place of |=.
BitBoard_set_mut(b, idx) == u64_shl({0}, idx)
BitBoard_set(b, idx) == BitOr(b, u64_shl({0}, idx))

BitBoard_unset(b, idx) == BitAnd(b, u64_not(u64_shl({0}, idx)))

BitBoard_with(b, idx) == LET copy == b IN BitBoard_set(copy, idx)

BitBoard_shl(a, b) == wrapping_shl(a, as_u32(b))

\* Fault variant: a count of BITS or more (or a negative one) gives zero.
BitBoard_shl_i64_mut(a, n) ==
    IF i64_bits(n) \cap (6..31) # {} THEN {} ELSE u64_shl(a, n)
BitBoard_shl_i64(a, n) == wrapping_shl(a, as_u32(i64_bits(n)))

BitBoard_not(a) == u64_not(a)

\* Fault variant: the rows are not flipped.
fmt_pos_mut(bit) == bit

\* The bit shown by the bit-th cell of the rendering.
fmt_pos(bit) == AsU8((7 - (bit \div 8)) * 8) + (bit % 8)

\* What one iteration of the loop pushes onto s: the rank label before the
\* first cell of a row, the cell, and the newline after the last cell.
fmt_push(b, bit, rank) ==
    (IF bit % 8 = 0 THEN <<48 + rank, 32>> ELSE <<>>)
        \o (IF BitAnd(b, u64_shl({0}, fmt_pos(bit))) # {}
            THEN <<120, 32>> ELSE <<46, 32>>)
        \o (IF bit % WIDTH = WIDTH - 1 THEN <<10>> ELSE <<>>)

\* The loop over bit in 0..BITS, rank being decremented at each row start.
RECURSIVE fmt_loop(_, _, _)
fmt_loop(b, bit, rank) ==
    IF bit >= BITS THEN <<>>
    ELSE fmt_push(b, bit, rank)
             \o fmt_loop(b, bit + 1, IF bit % 8 = 0 THEN rank - 1 ELSE rank)

\* ('a'..='h').fold(" ", |acc, e| format!("{acc} {e}"))
RECURSIVE fmt_files(_, _)
fmt_files(acc, e) ==
    IF e > 104 THEN acc ELSE fmt_files(acc \o <<32, e>>, e + 1)

BitBoard_fmt(b) == fmt_loop(b, 0, 8) \o fmt_files(<<32>>, 97)

(***************************************************************************)
(* Square parsing: a text is drawn, Square::from_str is applied to it, and *)
(* the Square, if any, is converted to its bit index.                      *)
(***************************************************************************)
\* The characters two-character texts are drawn from: space, the digits,
\* '@', 'A'..'I', '`', 'a'..'i', e-acute and s-caron.
StrChars == {32} \cup (48..57) \cup (64..73) \cup (96..105) \cup {233, 353}

\* The characters longer texts are drawn from: '1', '2', 'a'.
LongChars == {49, 50, 97}

Texts ==
    UNION {[1..n -> StrChars] : n \in 0..2}
        \cup UNION {[1..n -> LongChars] : n \in 3..MaxLen}

InitOther(vs) ==
    /\ "square" \in vs \/ (text = <<>> /\ parsed = None /\ index = -1)
    /\ "file" \in vs \/ (ch = 0 /\ file_result = None)
    /\ "board" \in vs
          \/ (board = {} /\ op = "none" /\ arg = 0 /\ rhs = {} /\ prev = {}
                /\ out = None)
    /\ "driver" \in vs
          \/ (args = <<>> /\ argi = 1 /\ stdout = <<>> /\ pc = "idle")

InitSquare ==
    /\ overflow_checks \in BOOLEAN
    /\ text \in Texts
    /\ parsed = None
    /\ index = -1
    /\ InitOther({"square"})

Parse ==
    /\ parsed = None
    /\ parsed' = Square_from_str(text, overflow_checks)
    /\ UNCHANGED <<overflow_checks, text, index, fileVars, boardVars, driverVars>>

ToIndex ==
    /\ parsed.tag = "Ok"
    /\ index = -1
    /\ index' = u8_from_Square(parsed.val)
    /\ UNCHANGED <<overflow_checks, text, parsed, fileVars, boardVars, driverVars>>

NextSquare == Parse \/ ToIndex

SpecSquare == InitSquare /\ [][NextSquare]_vars

(***************************************************************************)
(* File conversion: a char is drawn and File::try_from is applied to it.   *)
(***************************************************************************)
Chars == (0..127) \cup NonAsciiChars

InitFile ==
    /\ overflow_checks \in BOOLEAN
    /\ ch \in Chars
    /\ file_result = None
    /\ InitOther({"file"})

FileFromChar ==
    /\ file_result = None
    /\ file_result' = File_try_from_char(ch, overflow_checks)
    /\ UNCHANGED <<overflow_checks, ch, squareVars, boardVars, driverVars>>

NextFile == FileFromChar

SpecFile == InitFile /\ [][NextFile]_vars

(***************************************************************************)
(* BitBoard operations: a mask is drawn and one operation is applied.      *)
(***************************************************************************)
SeedBits == {0, 7, 28, 35, 62, 63}

\* The masks drawn: the subsets of the seed bits and their complements.
Masks == (SUBSET SeedBits) \cup {AllBits \ m : m \in SUBSET SeedBits}

\* The masks used as shift counts.
ShiftMasks == {{}, {0}, {1}, {0, 1, 2}, 0..5, {6}, {0, 6}, {3, 63}, {2, 32},
               AllBits}

\* The i64 shift counts.
ShiftCounts ==
    ((0 - MaxShift)..MaxShift)
        \cup {65536, 65537, 1073741824, 2147483647, -2147483647}

InitBoard ==
    /\ overflow_checks \in BOOLEAN
    /\ board \in Masks
    /\ op = "none"
    /\ arg = 0
    /\ rhs = {}
    /\ prev = {}
    /\ out = None
    /\ InitOther({"board"})

Applied(name, b, n, r, o) ==
    /\ op = "none"
    /\ op' = name
    /\ prev' = board
    /\ board' = b
    /\ arg' = n
    /\ rhs' = r
    /\ out' = o
    /\ UNCHANGED <<overflow_checks, squareVars, fileVars, driverVars>>

Set == \E idx \in AllBits :
    Applied("set", BitBoard_set(board, idx), idx, {}, None)

Unset == \E idx \in AllBits :
    Applied("unset", BitBoard_unset(board, idx), idx, {}, None)

With == \E idx \in AllBits :
    Applied("with", board, idx, {}, BitBoard_with(board, idx))

PopulationCount ==
    Applied("population_count", board, 0, {}, population_count(board))

Not == Applied("not", board, 0, {}, BitBoard_not(board))

Shl == \E b \in ShiftMasks :
    Applied("shl", board, 0, b, BitBoard_shl(board, b))

ShlI64 == \E n \in ShiftCounts :
    Applied("shl_i64", board, n, {}, BitBoard_shl_i64(board, n))

Display == Applied("fmt", board, 0, {}, BitBoard_fmt(board))

NextBoard ==
    \/ Set
    \/ Unset
    \/ With
    \/ PopulationCount
    \/ Not
    \/ Shl
    \/ ShlI64
    \/ Display

SpecBoard == InitBoard /\ [][NextBoard]_vars

(***************************************************************************)
(* The example driver: main of examples/print_bitboard.rs.                 *)
(***************************************************************************)
\* "e4", "a1", "h8", "E4", "i1", "a9", "", "a12", e-acute.
Tokens == {<<101, 52>>, <<97, 49>>, <<104, 56>>, <<69, 52>>, <<105, 49>>,
           <<97, 57>>, <<>>, <<97, 49, 50>>, <<233>>}

InitDriver ==
    /\ overflow_checks \in BOOLEAN
    /\ args \in UNION {[1..n -> Tokens] : n \in 0..MaxArgs}
    /\ argi = 1
    /\ board = BitBoard_default
    /\ stdout = <<>>
    /\ pc = "loop"
    /\ op = "none" /\ arg = 0 /\ rhs = {} /\ prev = {} /\ out = None
    /\ InitOther({"board", "driver"})

\* Fault variant: a token that does not parse is skipped.
LoopBody_mut ==
    /\ pc = "loop"
    /\ argi <= Len(args)
    /\ LET sq == Square_from_str(args[argi], overflow_checks)
       IN  /\ board' = IF sq.tag = "Ok"
                       THEN BitBoard_set(board, u8_from_Square(sq.val))
                       ELSE board
           /\ argi' = argi + 1
           /\ pc' = pc
    /\ UNCHANGED <<overflow_checks, squareVars, fileVars, op, arg, rhs, prev,
                   out, args, stdout>>

\* One iteration of the loop: Square::from_str(&arg).unwrap(), then
\* board.set(sq.into()).
LoopBody ==
    /\ pc = "loop"
    /\ argi <= Len(args)
    /\ LET sq == Square_from_str(args[argi], overflow_checks)
       IN  IF sq.tag = "Ok"
           THEN /\ board' = BitBoard_set(board, u8_from_Square(sq.val))
                /\ argi' = argi + 1
                /\ pc' = pc
           ELSE /\ pc' = "panicked"
                /\ UNCHANGED <<board, argi>>
    /\ UNCHANGED <<overflow_checks, squareVars, fileVars, op, arg, rhs, prev,
                   out, args, stdout>>

\* println!("{board}") once the arguments are exhausted.
Println ==
    /\ pc = "loop"
    /\ argi > Len(args)
    /\ stdout' = stdout \o BitBoard_fmt(board) \o <<10>>
    /\ pc' = "exit"
    /\ UNCHANGED <<overflow_checks, squareVars, fileVars, boardVars, args,
                   argi>>

NextDriver == LoopBody \/ Println

SpecDriver == InitDriver /\ [][NextDriver]_vars

(***************************************************************************)
(* Claims about the coordinate system.                                     *)
(***************************************************************************)
FileLetters == 97..104
FileCapitals == 65..72
RankDigits == 49..56

\* A text that is exactly one file letter followed by one rank digit.
WellFormed(s) ==
    /\ Len(s) = 2
    /\ s[1] \in FileLetters \cup FileCapitals
    /\ s[2] \in RankDigits

\* C1: for every file letter f in a..h and rank digit r in 1..8, parsing
\* "fr" succeeds and the Square's bit index is (r - 1) * 8 + (position of f
\* in a..h); the index is in 0..63 and the 64 Squares map onto 0..63
\* one to one.
C1_IndexMapping ==
    (Len(text) = 2 /\ text[1] \in FileLetters /\ text[2] \in RankDigits)
        => /\ parsed # None => parsed.tag = "Ok"
           /\ index # -1 =>
                /\ index = (text[2] - 49) * 8 + (text[1] - 97)
                /\ index \in 0..63
                /\ {u8_from_Square(sq) : sq \in Square} = 0..63
                /\ \A sq \in Square :
                       u8_from_Square(sq) = index => sq = parsed.val

C1_Witness == text = <<101, 52>> /\ parsed.tag = "Ok" /\ index = 28

\* C2: Square::from_str returns an Err value, and neither panics nor
\* returns a Square, for every text that is not exactly one file letter
\* (a-h or A-H) followed by one rank digit (1-8).
C2_ErrOnInvalid ==
    (parsed # None /\ ~WellFormed(text)) => parsed.tag = "Err"

\* C3: File::try_from(char) succeeds only for a..h and A..H, maps a/A to
\* the File of numeral 1 through h/H to the File of numeral 8, and returns
\* an error, without panicking, for every other character.
C3_FileFromChar ==
    file_result # None =>
        IF ch \in FileLetters THEN file_result = File_try_from_u8(ch - 96)
        ELSE IF ch \in FileCapitals THEN file_result = File_try_from_u8(ch - 64)
        ELSE file_result.tag = "Err"

(***************************************************************************)
(* Claims about the BitBoard.                                              *)
(***************************************************************************)
\* The lines of a text: the pieces between its newlines.
Lines(s) ==
    LET nl == {i \in 1..Len(s) : s[i] = 10}
        starts == {1} \cup {i + 1 : i \in nl}
        start(k) == CHOOSE st \in starts :
                        Cardinality({i \in nl : i < st}) = k - 1
        end(st) == CHOOSE e \in (nl \cup {Len(s) + 1}) :
                       e >= st /\ \A i \in nl : i >= st => e <= i
    IN  [k \in 1..(Cardinality(nl) + 1) |->
            SubSeq(s, start(k), end(start(k)) - 1)]

\* C4: the rendering is eight rows labelled 8 down to 1, each the rank
\* digit, a space and eight cells ('x' or '.') separated by single spaces
\* with the newline directly after the 8th cell, then a line of two spaces
\* and the letters a to h separated by single spaces, without a trailing
\* newline.
C4_ExactLayout ==
    op = "fmt" =>
        /\ Len(out) = 8 * 18 + 17
        /\ \A k \in 1..8 :
               LET base == 18 * (k - 1)
               IN  /\ out[base + 1] = 48 + (9 - k)
                   /\ out[base + 2] = 32
                   /\ \A j \in 0..7 : out[base + 3 + 2 * j] \in {120, 46}
                   /\ \A j \in 0..6 : out[base + 4 + 2 * j] = 32
                   /\ out[base + 18] = 10
        /\ SubSeq(out, 8 * 18 + 1, 8 * 18 + 17)
               = <<32, 32, 97, 32, 98, 32, 99, 32, 100, 32, 101, 32, 102, 32,
                   103, 32, 104>>

\* C5: the cell in the row labelled R and the column under letter F is 'x'
\* if and only if bit (R - 1) * 8 + (F - 1) of the mask is set, and '.'
\* otherwise; a mask with only bit 28 set shows a single 'x'.
C5_CellShowsBit ==
    op = "fmt" =>
        LET ls == Lines(out)
            legend == ls[Len(ls)]
            rows(R) == {k \in 1..(Len(ls) - 1) :
                            Len(ls[k]) >= 1 /\ ls[k][1] = 48 + R}
            cols(F) == {c \in 1..Len(legend) : legend[c] = 96 + F}
        IN  /\ \A R \in 1..8 : \A F \in 1..8 :
                   /\ Cardinality(rows(R)) = 1
                   /\ Cardinality(cols(F)) = 1
                   /\ \A k \in rows(R) : \A c \in cols(F) :
                          /\ c <= Len(ls[k])
                          /\ ls[k][c] = IF ((R - 1) * 8 + (F - 1)) \in board
                                        THEN 120 ELSE 46
            /\ Cardinality({i \in 1..Len(out) : out[i] = 120})
                   = Cardinality(board)

C5_Witness ==
    /\ op = "fmt"
    /\ board = {28}
    /\ Lines(out)[5] = <<52, 32, 46, 32, 46, 32, 46, 32, 46, 32, 120, 32, 46,
                         32, 46, 32, 46, 32>>

\* The bits of a shifted left by k places, those moved past bit 63 lost.
ShiftLeftBy(a, k) == {i \in AllBits : (i - k) \in a}

\* C6 as stated: a << n never panics; for 0 <= n <= 63 it is
\* (a * 2^n) mod 2^64 and for every n >= 64 it is the empty mask.
C6_ShiftOutAtWidth ==
    (op = "shl_i64" /\ arg >= 0) =>
        /\ out \subseteq AllBits
        /\ IF arg <= 63 THEN out = ShiftLeftBy(board, arg) ELSE out = {}

\* C6 as amended: a << n never panics and never wraps a bit to the low end;
\* for 0 <= n <= 63 it is (a * 2^n) mod 2^64, and for n >= 64 it is
\* (a * 2^(n mod 64)) mod 2^64, which need not be empty.
C6_ShiftTruncates ==
    (op = "shl_i64" /\ arg >= 0) =>
        LET k == arg - 64 * (arg \div 64)
        IN  /\ out \subseteq AllBits
            /\ \A i \in out : i >= k /\ (i - k) \in board
            /\ \A i \in board : i + k <= 63 => (i + k) \in out

C6_Witness == op = "shl_i64" /\ arg = 64 /\ board = {0, 63} /\ out = {0, 63}

\* C8: set(i) then unset(i) gives what unset(i) gives; bit i is a member
\* after set and after with; set, with and unset leave every other bit
\* unchanged; with returns a new mask and leaves its receiver unchanged.
C8_SetUnsetWith ==
    /\ op = "set" =>
           /\ arg \in board
           /\ \A j \in AllBits \ {arg} : j \in board <=> j \in prev
           /\ BitBoard_unset(board, arg) = BitBoard_unset(prev, arg)
    /\ op = "unset" =>
           /\ arg \notin board
           /\ \A j \in AllBits \ {arg} : j \in board <=> j \in prev
    /\ op = "with" =>
           /\ board = prev
           /\ arg \in out
           /\ \A j \in AllBits \ {arg} : j \in out <=> j \in prev
           /\ BitBoard_unset(out, arg) = BitBoard_unset(prev, arg)

C8_Witness == op = "set" /\ arg = 28 /\ prev = {0, 63} /\ board = {0, 28, 63}

\* C9: the empty mask has population count 0, its complement has 64, and
\* population_count(a) + population_count(!a) = 64 with both in 0..64.
C9_PopulationCount ==
    op = "population_count" =>
        /\ out \in 0..64
        /\ population_count(BitBoard_not(board)) \in 0..64
        /\ out + population_count(BitBoard_not(board)) = 64
        /\ board = BitBoard_default => out = 0
        /\ board = BitBoard_not(BitBoard_default) => out = 64

C9_Witness ==
    op = "population_count" /\ board = BitBoard_not(BitBoard_default)
        /\ out = 64

\* The u64 value of a mask modulo 64: the value of its low six bits.
Mod64(b) ==
    LET w(i) == IF i \in b THEN 2 ^ i ELSE 0
    IN  w(0) + w(1) + w(2) + w(3) + w(4) + w(5)

\* C10: the shift operators use the low 6 bits of the count: a << n is a
\* shifted left by n mod 64 for every count n, negative ones included, so
\* a << 64 is a and a << -1 is a << 63; a << b for a mask b shifts by the
\* value of b mod 64.
C10_ShiftCountMasked ==
    /\ op = "shl_i64" =>
           /\ out = ShiftLeftBy(board, arg % 64)
           /\ arg = 64 => out = board
           /\ arg = -1 => out = ShiftLeftBy(board, 63)
    /\ op = "shl" => out = ShiftLeftBy(board, Mod64(rhs))

C10_Witness == op = "shl_i64" /\ arg = -1 /\ board = {0, 7} /\ out = {63}

(***************************************************************************)
(* Claims about the driver.                                                *)
(***************************************************************************)
\* The bit a well-formed token names.
TokenBit(t) ==
    (t[2] - 49) * 8 + (IF t[1] \in FileCapitals THEN t[1] - 65 ELSE t[1] - 97)

Malformed == {i \in 1..Len(args) : ~WellFormed(args[i])}

\* C7: if some token is malformed the run aborts at the first such token
\* and nothing is printed; if all tokens are valid the run does not abort
\* and prints exactly one mask, whose bits are the bits of the tokens.
C7_RenderAfterAllParsed ==
    /\ pc \in {"loop", "panicked"} => stdout = <<>>
    /\ Malformed # {} =>
           /\ pc # "exit"
           /\ \A i \in Malformed : argi <= i
           /\ pc = "panicked" => argi \in Malformed
    /\ Malformed = {} =>
           /\ pc # "panicked"
           /\ pc = "exit" =>
                  stdout = BitBoard_fmt({TokenBit(args[i]) : i \in 1..Len(args)})
                               \o <<10>>

C7_Witness ==
    /\ pc = "panicked"
    /\ args = <<<<101, 52>>, <<105, 49>>, <<97, 49>>>>
    /\ argi = 2
    /\ board = {28}
    /\ stdout = <<>>

====
